---- MODULE Spec2Model ----
(***************************************************************************)
(* File-to-Database loader (src/app.py).                                   *)
(*                                                                         *)
(* main resolves the datasets to load, db_loader globs the part files of   *)
(* one dataset, read_csv is a generator yielding (idx, chunk) pairs and    *)
(* to_sql appends one chunk to the table "<dataset>_test".  The module is  *)
(* single threaded; every action below is one stretch of straight-line     *)
(* code between two points where the environment (file system, database)   *)
(* is consulted.                                                           *)
(***************************************************************************)
EXTENDS Integers, Sequences, FiniteSets, TLC

(* ---------------------------------------------------------------------- *)
(* Bounds of the explored input space                                      *)
(* ---------------------------------------------------------------------- *)
MaxFiles == 2      \* part files per dataset directory
MaxRows == 3       \* rows per part file
MaxChunk == 2      \* largest -cs value tried (0 is tried as well)
MaxSel == 2        \* longest -ds_name list
MaxFaults == 1     \* environment failures (read or write) injected per run
MaxCols == 3       \* descriptors per dataset in the column-resolver runs
MaxPos == 2        \* largest column_position in the column-resolver runs

DatasetNames == {"orders", "items"}
ColumnNames == {"id", "name", "amount"}

VARIABLES
    pc,          \* control point of the process
    arg,         \* the arguments main was called with: [ds_names, chunksize]
    schemas,     \* parsed schemas.json: sequence of [name, cols] in key order
    ds_names,    \* main's ds_names after lines 62-66
    i,           \* 1-based position of main's loop over ds_names
    srcFiles,    \* the source directory as glob has seen it, per dataset
    csv_files,   \* db_loader's csv_files: row count of each globbed file
    fileIdx,     \* 1-based position of db_loader's loop over csv_files
    gen,         \* the read_csv generator of the current file
    chunk,       \* the (idx, df) pair db_loader is processing
    col_name,    \* read_csv's col_name
    table,       \* database: table name -> rows, in insertion order
    log,         \* records emitted by the logger (level INFO and above)
    calls,       \* dataset name of every db_loader invocation, in order
    attempts,    \* every df.to_sql call: [call, file, idx, ok, err]
    opened,      \* every pd.read_csv call of read_csv: [call, file]
    yielded,     \* the (idx, rows) pairs the current generator has yielded
    exc,         \* the exception that escaped, if any
    faults       \* number of environment failures injected so far

vars == <<pc, arg, schemas, ds_names, i, srcFiles, csv_files, fileIdx, gen,
          chunk, col_name, table, log, calls, attempts, opened, yielded,
          exc, faults>>

(* ---------------------------------------------------------------------- *)
(* Values                                                                  *)
(* ---------------------------------------------------------------------- *)
Min(a, b) == IF a <= b THEN a ELSE b

\* A ds_names argument: None, a str or a list of str.  A str is held as
\* the sequence of the names it denotes: <<>> for "", <<s>> otherwise.
None == [kind |-> "None", val |-> <<>>]
Str(s) == [kind |-> "str", val |-> IF s = "" THEN <<>> ELSE <<s>>]
List(l) == [kind |-> "list", val |-> l]

SeqsUpTo(S, n) == UNION {[1..k -> S] : k \in 0..n}

NoExc == [type |-> "none", origin |-> "none"]
Exc(t, o) == [type |-> t, origin |-> o]

NoChunk == [idx |-> -1, df |-> [columns |-> <<>>, rows |-> <<>>]]
NoGen == [state |-> "none", pos |-> 0, idx |-> 0, first_chunk |-> TRUE]

\* A logging call at source line `line`; the context fields identify the
\* db_loader call, the file and the chunk the message is about (0, 0, -1
\* where there is none).
Rec(level, line, call, file, idx) ==
    [level |-> level, line |-> line, call |-> call, file |-> file, idx |-> idx]

\* logger.setLevel(logging.INFO): DEBUG records are dropped.
LoggerLevel == "INFO"
Severity(level) ==
    CASE level = "DEBUG" -> 10
      [] level = "INFO" -> 20
      [] level = "ERROR" -> 40
      [] level = "CRITICAL" -> 50
Emit(l, recs) == l \o SelectSeq(recs, LAMBDA r : Severity(r.level) >= Severity(LoggerLevel))

(* ---------------------------------------------------------------------- *)
(* get_column_names                                                        *)
(* ---------------------------------------------------------------------- *)
HasKey(d, k) == k \in DOMAIN d

\* sorted(..., key=...) is stable: an element goes after every element
\* whose key is less than or equal to its own.
RECURSIVE InsertByKey(_, _, _)
InsertByKey(x, s, key) ==
    IF s = <<>> THEN <<x>>
    ELSE IF s[Len(s)][key] <= x[key] THEN Append(s, x)
    ELSE Append(InsertByKey(x, SubSeq(s, 1, Len(s) - 1), key), s[Len(s)])

RECURSIVE SortedFrom(_, _, _)
SortedFrom(acc, s, key) ==
    IF s = <<>> THEN acc
    ELSE SortedFrom(InsertByKey(s[1], acc, key), Tail(s), key)

Reverse(s) == [k \in 1..Len(s) |-> s[Len(s) + 1 - k]]

\* A sort that is not stable: elements of equal key come out in the reverse
\* of their order in s.
sortedUnstable(s, key) == SortedFrom(<<>>, Reverse(s), key)

sorted(s, key) == SortedFrom(<<>>, s, key)

Lookup(cat, name) ==
    LET hits == {k \in 1..Len(cat) : cat[k].name = name}
    IN  IF hits = {} THEN [found |-> FALSE, cols |-> <<>>]
        ELSE [found |-> TRUE, cols |-> cat[CHOOSE k \in hits : TRUE].cols]

\* The result carries the returned list (val), whether KeyError was raised
\* instead (ok = FALSE) and the catalog as the call leaves it (cat): sorted()
\* builds a new list, so the catalog is the one passed in.
get_column_names(cat, ds_name, sorting_key) ==
    LET e == Lookup(cat, ds_name)
    IN  IF ~e.found THEN [ok |-> FALSE, val |-> <<>>, cat |-> cat]
        ELSE IF \E k \in 1..Len(e.cols) : ~HasKey(e.cols[k], sorting_key)
             THEN [ok |-> FALSE, val |-> <<>>, cat |-> cat]
        ELSE IF \E k \in 1..Len(e.cols) : ~HasKey(e.cols[k], "column_name")
             THEN [ok |-> FALSE, val |-> <<>>, cat |-> cat]
        ELSE LET sorted_schema == sorted(e.cols, sorting_key)
             IN  [ok |-> TRUE,
                  val |-> [k \in 1..Len(sorted_schema) |->
                              sorted_schema[k].column_name],
                  cat |-> cat]

(* ---------------------------------------------------------------------- *)
(* Inputs                                                                  *)
(* ---------------------------------------------------------------------- *)
\* The descriptors every dataset has in the loader runs (the resolver runs
\* below vary them).
DefaultCols ==
    << [column_name |-> "id", column_position |-> 2],
       [column_name |-> "name", column_position |-> 0] >>

\* The key orders of schemas.json tried: no dataset, one, both.
CatalogKeys == {<<>>, <<"orders">>, <<"orders", "items">>}

CatalogOf(keys) == [k \in 1..Len(keys) |-> [name |-> keys[k], cols |-> DefaultCols]]

\* The catalogs of the orchestrator runs.
Catalogs == {CatalogOf(s) : s \in CatalogKeys}

\* The catalogs of the loader runs: without and with the dataset loaded.
LoadCatalogs == {CatalogOf(<<>>), CatalogOf(<<"orders">>)}

\* The ds_names arguments of the orchestrator runs.
Selectors ==
    {None, Str("")} \cup {Str(d) : d \in DatasetNames}
        \cup {List(l) : l \in SeqsUpTo(DatasetNames, MaxSel)}

\* The ds_names argument of the loader runs: one dataset.
LoadSelectors == {List(<<"orders">>)}

\* A dataset directory: the row count of each part-* file, in glob order.
\* The loader runs try every directory within the bounds.
Layouts == SeqsUpTo(0..MaxRows, MaxFiles)

\* The directories of the orchestrator runs: no part file, one file of two
\* rows, two files of one row.
RunLayouts == {<<>>, <<2>>, <<1, 1>>}

\* Row k of part file f; rows of different files are different rows.
FileRows(f, R) == [k \in 1..R |-> <<f, k>>]

Unseen == [seen |-> FALSE, files |-> <<>>]

(* ---------------------------------------------------------------------- *)
(* main                                                                    *)
(* ---------------------------------------------------------------------- *)
Truthy(v) == v.kind # "None" /\ v.val # <<>>

Keys(cat) == [k \in 1..Len(cat) |-> cat[k].name]

\* The selector is ignored: every dataset of the catalog is loaded.
ResolveDsNamesAll(sel, cat) == List(Keys(cat))

\* Lines 62-66: the ds_names main goes on with.
ResolveDsNames(sel, cat) == IF ~Truthy(sel) THEN List(Keys(cat)) ELSE sel

\* Lines 69-73: the db_loader calls main makes, in order.
DsList(v) == IF v.kind = "list" THEN v.val ELSE <<v.val[1]>>

Init ==
    /\ pc = "start"
    /\ arg = [ds_names |-> None, chunksize |-> 0]
    /\ schemas = <<>>
    /\ ds_names = None
    /\ i = 1
    /\ srcFiles = [d \in DatasetNames |-> Unseen]
    /\ csv_files = <<>>
    /\ fileIdx = 0
    /\ gen = NoGen
    /\ chunk = NoChunk
    /\ col_name = <<>>
    /\ table = <<>>
    /\ log = <<>>
    /\ calls = <<>>
    /\ attempts = <<>>
    /\ opened = <<>>
    /\ yielded = <<>>
    /\ exc = NoExc
    /\ faults = 0

\* Lines 206-207 and 27-66: the entry point calls main, which checks the
\* environment, loads schemas.json and resolves ds_names.
Main(selectors, catalogs) ==
    /\ pc = "start"
    /\ \E sel \in selectors, cs \in 0..MaxChunk :
         /\ arg' = [ds_names |-> sel, chunksize |-> cs]
         /\ \/ \* line 47: an environment variable is missing
               /\ exc' = Exc("ValueError", "main")
               /\ pc' = "unwinding"
               /\ UNCHANGED <<schemas, ds_names, log>>
            \/ \* line 58: schemas.json does not exist
               /\ log' = Emit(log, <<Rec("CRITICAL", 59, 0, 0, -1)>>)
               /\ exc' = Exc("FileNotFoundError", "main")
               /\ pc' = "unwinding"
               /\ UNCHANGED <<schemas, ds_names>>
            \/ \* line 55: schemas.json is not JSON
               /\ log' = Emit(log, <<Rec("CRITICAL", 56, 0, 0, -1)>>)
               /\ exc' = Exc("JSONDecodeError", "main")
               /\ pc' = "unwinding"
               /\ UNCHANGED <<schemas, ds_names>>
            \/ \E cat \in catalogs :
                 /\ schemas' = cat
                 /\ ds_names' = ResolveDsNames(sel, cat)
                 /\ log' = Emit(log, <<Rec("INFO", 54, 0, 0, -1),
                                       Rec("INFO", IF Truthy(sel) THEN 66 ELSE 64,
                                           0, 0, -1)>>)
                 /\ pc' = "main_loop"
                 /\ UNCHANGED exc
    /\ UNCHANGED <<i, srcFiles, csv_files, fileIdx, gen, chunk, col_name,
                   table, calls, attempts, opened, yielded, faults>>

\* main catches what db_loader raises and goes on with the next dataset.
SwallowInMain(e) ==
    /\ exc' = e
    /\ pc' = "main_loop"
    /\ i' = i + 1

\* Lines 69-73: main has no handler around db_loader, so an exception that
\* leaves db_loader leaves main as well and the loop is abandoned.
PropagateThroughMain(e) ==
    /\ exc' = e
    /\ pc' = "unwinding"
    /\ i' = i

\* Lines 69-73: the loop is over, main returns to the entry point.
MainReturn ==
    /\ pc = "main_loop"
    /\ i > Len(DsList(ds_names))
    /\ pc' = "exit"
    /\ UNCHANGED <<arg, schemas, ds_names, i, srcFiles, csv_files, fileIdx,
                   gen, chunk, col_name, table, log, calls, attempts, opened,
                   yielded, exc, faults>>

\* Lines 208-209: the entry point logs whatever escaped main and ends.
\* The entry point logs at ERROR instead of CRITICAL.
TopLevelRecordAsError == Rec("ERROR", 209, 0, 0, -1)

\* Line 209: the record of the entry point's handler.
TopLevelRecord == Rec("CRITICAL", 209, 0, 0, -1)

TopLevelCatch ==
    /\ pc = "unwinding"
    /\ log' = Emit(log, <<TopLevelRecord>>)
    /\ pc' = "exit"
    /\ UNCHANGED <<arg, schemas, ds_names, i, srcFiles, csv_files, fileIdx,
                   gen, chunk, col_name, table, calls, attempts, opened,
                   yielded, exc, faults>>

(* ---------------------------------------------------------------------- *)
(* db_loader                                                               *)
(* ---------------------------------------------------------------------- *)
CurDs == calls[Len(calls)]

\* Line 100: the destination table of a dataset.
TableName(ds_name) == ds_name \o "_test"

\* The check for an empty glob result is missing.
NoFilesIsIgnored(files) == FALSE

\* Lines 91-93: an empty glob result is an error of the dataset.
NoFilesIsError(files) == Len(files) = 0

\* Lines 71/73 and 89-93: main calls db_loader for the next name; db_loader
\* globs the part files and raises when there are none.
DbLoaderCall(layouts) ==
    /\ pc = "main_loop"
    /\ i <= Len(DsList(ds_names))
    /\ LET ds == DsList(ds_names)[i]
           k == Len(calls) + 1
       IN  /\ calls' = Append(calls, ds)
           /\ \E files \in IF srcFiles[ds].seen THEN {srcFiles[ds].files}
                                                 ELSE layouts :
                /\ srcFiles' = [srcFiles EXCEPT ![ds] = [seen |-> TRUE, files |-> files]]
                /\ IF NoFilesIsError(files)
                   THEN /\ log' = Emit(log, <<Rec("INFO", 89, k, 0, -1),
                                              Rec("ERROR", 92, k, 0, -1)>>)
                        /\ PropagateThroughMain(Exc("ValueError", "db_loader"))
                        /\ UNCHANGED <<csv_files, fileIdx>>
                   ELSE /\ log' = Emit(log, <<Rec("INFO", 89, k, 0, -1)>>)
                        /\ csv_files' = files
                        /\ fileIdx' = 1
                        /\ pc' = "for_file"
                        /\ UNCHANGED <<exc, i>>
    /\ UNCHANGED <<arg, schemas, ds_names, gen, chunk, col_name, table,
                   attempts, opened, yielded, faults>>

\* Lines 95-97: the next file of csv_files; read_csv(...) only creates the
\* generator, none of its body runs before the first next().
ForFile ==
    /\ pc = "for_file"
    /\ fileIdx <= Len(csv_files)
    /\ log' = Emit(log, <<Rec("INFO", 96, Len(calls), fileIdx, -1)>>)
    /\ gen' = [state |-> "created", pos |-> 0, idx |-> 0, first_chunk |-> TRUE]
    /\ yielded' = <<>>
    /\ pc' = "for_chunk"
    /\ UNCHANGED <<arg, schemas, ds_names, i, srcFiles, csv_files, fileIdx,
                   chunk, col_name, table, calls, attempts, opened, exc, faults>>

\* Lines 95 and 106: csv_files is exhausted, db_loader returns to main's loop.
DbLoaderReturn ==
    /\ pc = "for_file"
    /\ fileIdx > Len(csv_files)
    /\ log' = Emit(log, <<Rec("INFO", 106, Len(calls), 0, -1)>>)
    /\ i' = i + 1
    /\ pc' = "main_loop"
    /\ UNCHANGED <<arg, schemas, ds_names, srcFiles, csv_files, fileIdx, gen,
                   chunk, col_name, table, calls, attempts, opened, yielded,
                   exc, faults>>

(* ---------------------------------------------------------------------- *)
(* read_csv                                                                *)
(* ---------------------------------------------------------------------- *)
\* Lines 130-140: what each handler logs and what it raises in place of the
\* exception it caught.
ReadCsvHandler(type) ==
    CASE type = "FileNotFoundError" ->
            [level |-> "ERROR", line |-> 131, raises |-> "FileNotFoundError"]
      [] type = "ParserError" ->
            [level |-> "ERROR", line |-> 134, raises |-> "ParserError"]
      [] OTHER ->
            [level |-> "CRITICAL", line |-> 137, raises |-> "Exception"]

\* Line 97: db_loader iterates the generator outside its try block, so what
\* read_csv raises leaves db_loader.
ReadCsvRaise(type, before) ==
    LET h == ReadCsvHandler(type)
    IN  /\ log' = Emit(log, before \o <<Rec(h.level, h.line, Len(calls), fileIdx, gen.idx)>>)
        /\ gen' = [gen EXCEPT !.state = "done"]
        /\ PropagateThroughMain(Exc(h.raises, "read_csv"))

\* A reader that drops the rows left over after the last full chunk.
NextChunkFullOnly(rows, pos, C) ==
    IF pos + C > Len(rows) THEN <<>> ELSE SubSeq(rows, pos + 1, pos + C)

\* pandas' TextFileReader.__next__ with chunksize C over a file of rows:
\* the next C rows; at the end of the data StopIteration, except that the
\* very first read of a reader returns an empty frame instead (a file
\* without rows therefore gives one chunk of zero rows, then StopIteration).
NextChunk(rows, pos, C) == SubSeq(rows, pos + 1, Min(pos + C, Len(rows)))

AtEnd(rows, g) == g.pos >= Len(rows) /\ ~g.first_chunk

\* The environment failures a read may meet.
ReadFaults(first) ==
    IF faults < MaxFaults
    THEN {"ParserError", "OSError"} \cup (IF first THEN {"FileNotFoundError"} ELSE {})
    ELSE {}

\* Lines 97 and 124-140: db_loader asks the generator for the next pair.
\* The first request runs get_column_names and pd.read_csv before the loop.
ReadCsvNext ==
    /\ pc = "for_chunk"
    /\ LET first == gen.state = "created"
           cn == get_column_names(schemas, CurDs, "column_position")
           R == csv_files[fileIdx]
           rows == FileRows(fileIdx, R)
           C == arg.chunksize
       IN  IF first /\ ~cn.ok
           THEN \* lines 181-183, then 136-140
                /\ ReadCsvRaise("KeyError", <<Rec("ERROR", 182, Len(calls), fileIdx, -1)>>)
                /\ UNCHANGED <<col_name, opened, yielded, chunk, fileIdx, faults>>
           ELSE IF first /\ C < 1
           THEN \* pd.read_csv rejects a chunksize below 1 with ValueError
                /\ ReadCsvRaise("ValueError", <<Rec("DEBUG", 126, Len(calls), fileIdx, -1)>>)
                /\ col_name' = cn.val
                /\ opened' = Append(opened, [call |-> Len(calls), file |-> fileIdx])
                /\ UNCHANGED <<yielded, chunk, fileIdx, faults>>
           ELSE /\ col_name' = IF first THEN cn.val ELSE col_name
                /\ opened' = IF first
                             THEN Append(opened, [call |-> Len(calls), file |-> fileIdx])
                             ELSE opened
                /\ \/ \E f \in ReadFaults(first) :
                        /\ ReadCsvRaise(f, IF first
                                            THEN <<Rec("DEBUG", 126, Len(calls), fileIdx, -1)>>
                                            ELSE <<>>)
                        /\ faults' = faults + 1
                        /\ UNCHANGED <<yielded, chunk, fileIdx>>
                   \/ \* line 129: yield idx, df
                      /\ ~AtEnd(rows, gen)
                      /\ LET df == [columns |-> IF first THEN cn.val ELSE col_name,
                                    rows |-> NextChunk(rows, gen.pos, C)]
                         IN  /\ chunk' = [idx |-> gen.idx, df |-> df]
                             /\ yielded' = Append(yielded, <<gen.idx, df.rows>>)
                      /\ gen' = [state |-> "open", pos |-> Min(gen.pos + C, Len(rows)),
                                 idx |-> gen.idx + 1, first_chunk |-> FALSE]
                      /\ log' = Emit(log, IF first
                                          THEN <<Rec("DEBUG", 126, Len(calls), fileIdx, -1)>>
                                          ELSE <<>>)
                      /\ pc' = "try_chunk"
                      /\ UNCHANGED <<fileIdx, exc, i, faults>>
                   \/ \* the reader is exhausted: the generator returns and
                      \* db_loader's inner loop ends
                      /\ AtEnd(rows, gen)
                      /\ gen' = [gen EXCEPT !.state = "done"]
                      /\ fileIdx' = fileIdx + 1
                      /\ pc' = "for_file"
                      /\ UNCHANGED <<log, yielded, chunk, exc, i, faults>>
    /\ schemas' = IF gen.state = "created"
                  THEN get_column_names(schemas, CurDs, "column_position").cat
                  ELSE schemas
    /\ UNCHANGED <<arg, ds_names, srcFiles, csv_files, table, calls, attempts>>

(* ---------------------------------------------------------------------- *)
(* to_sql and the body of db_loader's inner loop                           *)
(* ---------------------------------------------------------------------- *)
\* if_exists="replace": the table is dropped and holds the rows of df only.
Replace_table(tbl, name, df) ==
    IF name \in DOMAIN tbl
    THEN [tbl EXCEPT ![name] = df.rows]
    ELSE tbl @@ (name :> df.rows)

\* Line 156: if_exists="append" creates the table when it is missing and
\* adds the rows of df after the rows the table holds.
Append_to_table(tbl, name, df) ==
    IF name \in DOMAIN tbl
    THEN [tbl EXCEPT ![name] = @ \o df.rows]
    ELSE tbl @@ (name :> df.rows)

\* to_sql re-raises without logging.
ToSqlNoErrorLog(type, k, f, idx) == <<>>

\* Lines 158-162: to_sql logs only the pandas DatabaseError it catches;
\* anything else df.to_sql raises passes through unlogged.
ToSqlErrorLog(type, k, f, idx) ==
    IF type = "DatabaseError" THEN <<Rec("ERROR", 159, k, f, idx)>> ELSE <<>>

\* The handler is narrowed to `except ValueError`.
DbLoaderCatchesValueError(type) == type = "ValueError"

\* Line 102: `except Exception` catches whatever to_sql raises.
DbLoaderCatches(type) == TRUE

\* The failures of a database write.
WriteFaults == IF faults < MaxFaults THEN {"DatabaseError", "OperationalError"} ELSE {}

\* Lines 98-104 with to_sql (143-162): one chunk is logged, written, and a
\* failure of the write is logged and skipped.
ProcessChunk ==
    /\ pc = "try_chunk"
    /\ LET k == Len(calls)
           start == <<Rec("INFO", 99, k, fileIdx, chunk.idx)>>
           att(ok, err) == [call |-> k, file |-> fileIdx, idx |-> chunk.idx,
                            ok |-> ok, err |-> err]
       IN  \/ /\ table' = Append_to_table(table, TableName(CurDs), chunk.df)
              /\ attempts' = Append(attempts, att(TRUE, "none"))
              /\ log' = Emit(log, start \o <<Rec("INFO", 101, k, fileIdx, chunk.idx)>>)
              /\ pc' = "for_chunk"
              /\ UNCHANGED <<exc, i, faults>>
           \/ \E e \in WriteFaults :
                /\ attempts' = Append(attempts, att(FALSE, e))
                /\ faults' = faults + 1
                /\ UNCHANGED table
                /\ IF DbLoaderCatches(e)
                   THEN /\ log' = Emit(log, start \o ToSqlErrorLog(e, k, fileIdx, chunk.idx)
                                          \o <<Rec("ERROR", 103, k, fileIdx, chunk.idx)>>)
                        /\ pc' = "for_chunk"
                        /\ UNCHANGED <<exc, i>>
                   ELSE /\ log' = Emit(log, start \o ToSqlErrorLog(e, k, fileIdx, chunk.idx))
                        /\ PropagateThroughMain(Exc(e, "to_sql"))
    /\ UNCHANGED <<arg, schemas, ds_names, srcFiles, csv_files, fileIdx, gen,
                   chunk, col_name, calls, opened, yielded>>

\* One run of the program over one dataset, with every directory layout.
NextLoad ==
    \/ Main(LoadSelectors, LoadCatalogs)
    \/ DbLoaderCall(Layouts)
    \/ ForFile
    \/ ReadCsvNext
    \/ ProcessChunk
    \/ DbLoaderReturn
    \/ MainReturn
    \/ TopLevelCatch

SpecLoad == Init /\ [][NextLoad]_vars

\* One run of the program with every ds_names argument.
NextRun ==
    \/ Main(Selectors, Catalogs)
    \/ DbLoaderCall(RunLayouts)
    \/ ForFile
    \/ ReadCsvNext
    \/ ProcessChunk
    \/ DbLoaderReturn
    \/ MainReturn
    \/ TopLevelCatch

SpecRun == Init /\ [][NextRun]_vars

TypeOK == pc \in {"start", "main_loop", "for_file", "for_chunk", "try_chunk",
                  "unwinding", "exit", "resolve", "resolved"}

(* ---------------------------------------------------------------------- *)
(* get_column_names on its own, over catalogs with varied descriptors      *)
(* ---------------------------------------------------------------------- *)
Descriptors ==
    [column_name : ColumnNames, column_position : 0..MaxPos]
        \cup [column_name : ColumnNames]
        \cup [column_position : 0..MaxPos]

ResolverCatalogs ==
    {<<>>} \cup {<<[name |-> "orders", cols |-> c]>> : c \in SeqsUpTo(Descriptors, MaxCols)}

InitCols ==
    /\ pc = "resolve"
    /\ schemas \in ResolverCatalogs
    /\ arg = [schemas |-> schemas, ds_name |-> "orders"]
    /\ ds_names = None
    /\ i = 1
    /\ srcFiles = [d \in DatasetNames |-> Unseen]
    /\ csv_files = <<>>
    /\ fileIdx = 0
    /\ gen = NoGen
    /\ chunk = NoChunk
    /\ col_name = <<>>
    /\ table = <<>>
    /\ log = <<>>
    /\ calls = <<>>
    /\ attempts = <<>>
    /\ opened = <<>>
    /\ yielded = <<>>
    /\ exc = NoExc
    /\ faults = 0

\* Lines 164-183: one call get_column_names(schemas, ds_name).
GetColumnNamesCall ==
    /\ pc = "resolve"
    /\ LET r == get_column_names(schemas, arg.ds_name, "column_position")
       IN  /\ schemas' = r.cat
           /\ col_name' = r.val
           /\ IF r.ok
              THEN UNCHANGED <<log, exc>>
              ELSE /\ log' = Emit(log, <<Rec("ERROR", 182, 0, 0, -1)>>)
                   /\ exc' = Exc("KeyError", "get_column_names")
    /\ pc' = "resolved"
    /\ UNCHANGED <<arg, ds_names, i, srcFiles, csv_files, fileIdx, gen, chunk,
                   table, calls, attempts, opened, yielded, faults>>

NextCols == GetColumnNamesCall

SpecCols == InitCols /\ [][NextCols]_vars

(* ---------------------------------------------------------------------- *)
(* Vocabulary of the properties                                            *)
(* ---------------------------------------------------------------------- *)
CeilDiv(R, C) == (R + C - 1) \div C

RECURSIVE Concat(_)
Concat(ss) == IF ss = <<>> THEN <<>> ELSE Head(ss) \o Concat(Tail(ss))

Occurrences(s, x) == Cardinality({k \in 1..Len(s) : s[k] = x})

AttemptsOf(k) == {a \in 1..Len(attempts) : attempts[a].call = k}
FailedOf(k) == {a \in AttemptsOf(k) : ~attempts[a].ok}
OpenedOf(k) == {o \in 1..Len(opened) : opened[o].call = k}

\* db_loader call k has returned to main.
Returned(k) ==
    \/ k < Len(calls)
    \/ k = Len(calls) /\ pc \in {"main_loop", "exit"} /\ exc = NoExc

FilesOf(k) == srcFiles[calls[k]].files

\* The chunks read_csv yields for a file of R rows.
ChunksOfFile(R, C) == IF R = 0 THEN 1 ELSE CeilDiv(R, C)

\* The (file, idx) pairs of the chunks of the dataset of call k.
ChunkIds(k) ==
    UNION {{<<f, idx>> : idx \in 0..(ChunksOfFile(FilesOf(k)[f], arg.chunksize) - 1)} :
              f \in 1..Len(FilesOf(k))}

RowsOfDataset(ds) ==
    Concat([f \in 1..Len(srcFiles[ds].files) |-> FileRows(f, srcFiles[ds].files[f])])

TableRows(ds) ==
    IF TableName(ds) \in DOMAIN table THEN table[TableName(ds)] ELSE <<>>

ErrorRecords(a) ==
    {r \in 1..Len(log) :
        /\ log[r].level = "ERROR"
        /\ log[r].line \in {103, 159}
        /\ log[r].call = attempts[a].call
        /\ log[r].file = attempts[a].file
        /\ log[r].idx = attempts[a].idx}

CriticalRecords == {r \in 1..Len(log) : log[r].level = "CRITICAL"}

(* ---------------------------------------------------------------------- *)
(* C1: a write failure is isolated                                         *)
(* ---------------------------------------------------------------------- *)
\* C1: a failing to_sql never makes db_loader raise, and a db_loader call
\* during which exactly one to_sql failed has called to_sql once for every
\* chunk of every file, all but one of them successfully.
C1_WriteFailureIsolated ==
    /\ exc.origin # "to_sql"
    /\ \A k \in 1..Len(calls) :
          Returned(k) /\ Cardinality(FailedOf(k)) = 1 =>
            /\ {<<attempts[a].file, attempts[a].idx>> : a \in AttemptsOf(k)} = ChunkIds(k)
            /\ Cardinality(AttemptsOf(k)) = Cardinality(ChunkIds(k))
            /\ Cardinality(AttemptsOf(k) \ FailedOf(k)) = Cardinality(ChunkIds(k)) - 1

\* A call over two files whose only failed write is a middle chunk of the
\* first file has returned.
C1_Witness ==
    \E k \in 1..Len(calls) :
        /\ Returned(k)
        /\ Len(FilesOf(k)) = 2
        /\ \E a \in FailedOf(k) :
              /\ FailedOf(k) = {a}
              /\ attempts[a].file = 1
              /\ attempts[a].idx = 1
              /\ <<1, 2>> \in ChunkIds(k)

(* ---------------------------------------------------------------------- *)
(* C2: a read failure is isolated                                          *)
(* ---------------------------------------------------------------------- *)
\* C2: when read_csv fails for a file (not found at open, or a parse error
\* at some chunk), db_loader does not raise.
C2_ReadFailureIsolated ==
    ~(exc.origin = "read_csv" /\ exc.type \in {"FileNotFoundError", "ParserError"})

(* ---------------------------------------------------------------------- *)
(* C3: no source files                                                     *)
(* ---------------------------------------------------------------------- *)
\* C3: a db_loader call for a dataset without part files ends the run with
\* the no-files ValueError, after logging it, without a to_sql call and
\* without reading a file, whether or not the catalog has the dataset.
C3_NoSourceFiles ==
    \A k \in 1..Len(calls) :
        FilesOf(k) = <<>> =>
            /\ k = Len(calls)
            /\ pc \in {"unwinding", "exit"}
            /\ exc = Exc("ValueError", "db_loader")
            /\ AttemptsOf(k) = {}
            /\ OpenedOf(k) = {}
            /\ \E r \in 1..Len(log) : log[r] = Rec("ERROR", 92, k, 0, -1)

\* A run found no files for a dataset the catalog lacks, and is over.
C3_Witness ==
    /\ Len(calls) = 1
    /\ FilesOf(1) = <<>>
    /\ ~Lookup(schemas, calls[1]).found
    /\ pc = "exit"

(* ---------------------------------------------------------------------- *)
(* C4: a dataset-level error ends the run                                  *)
(* ---------------------------------------------------------------------- *)
\* C4: once an exception has left db_loader, main is left at once, no
\* further db_loader call and no further write is made, and the tables keep
\* the rows written before.
C4_FatalErrorEndsRun ==
    [][(exc' # NoExc /\ exc'.origin # "main") =>
          /\ pc' \in {"unwinding", "exit"}
          /\ (exc # NoExc => calls' = calls)
          /\ attempts' = attempts
          /\ table' = table]_vars

\* The first of two datasets raised after a chunk of it was written; the
\* run is over, the second dataset was never loaded and the rows are there.
C4_Witness ==
    /\ pc = "exit"
    /\ exc = Exc("ParserError", "read_csv")
    /\ Len(calls) = 1
    /\ Len(DsList(ds_names)) = 2
    /\ DsList(ds_names)[2] # calls[1]
    /\ Len(TableRows(calls[1])) > 0

(* ---------------------------------------------------------------------- *)
(* C5: dataset selection and sequencing                                    *)
(* ---------------------------------------------------------------------- *)
\* The names the selector stands for: the catalog's keys in catalog order
\* when it is absent or empty, the given names in the given order otherwise.
SelectedNames ==
    IF arg.ds_names.kind = "None" \/ arg.ds_names.val = <<>>
    THEN Keys(schemas)
    ELSE arg.ds_names.val

\* C5: once main has loaded the catalog, the db_loader calls made so far are
\* a prefix of the selected names, all of them when the run ends without an
\* exception, and the to_sql calls are grouped by db_loader call in call
\* order.
C5_SelectionAndSequence ==
    (pc # "start" /\ exc.origin # "main") =>
        /\ Len(calls) <= Len(SelectedNames)
        /\ calls = SubSeq(SelectedNames, 1, Len(calls))
        /\ (pc = "exit" /\ exc = NoExc => calls = SelectedNames)
        /\ \A a, b \in 1..Len(attempts) :
              a < b => attempts[a].call <= attempts[b].call
        /\ \A a \in 1..Len(attempts) : attempts[a].call \in 1..Len(calls)

\* A list given in another order than the catalog's was loaded in the given
\* order, with writes for both datasets.
C5_Witness ==
    /\ pc = "exit"
    /\ exc = NoExc
    /\ arg.ds_names = List(<<"items", "orders">>)
    /\ Keys(schemas) = <<"orders", "items">>
    /\ calls = <<"items", "orders">>
    /\ AttemptsOf(1) # {}
    /\ AttemptsOf(2) # {}

\* With no selector the catalog's datasets were loaded in catalog order.
C5_WitnessAll ==
    /\ pc = "exit"
    /\ exc = NoExc
    /\ arg.ds_names = None
    /\ calls = <<"orders", "items">>
    /\ AttemptsOf(2) # {}

(* ---------------------------------------------------------------------- *)
(* C6: schemas.json is missing                                             *)
(* ---------------------------------------------------------------------- *)
SchemaMissing == exc = Exc("FileNotFoundError", "main")

\* C6 as stated: a run without schemas.json ends with no db_loader call, no
\* write and exactly one CRITICAL record.
C6_OneFatalRecord ==
    (SchemaMissing /\ pc = "exit") =>
        /\ calls = <<>>
        /\ attempts = <<>>
        /\ table = <<>>
        /\ Cardinality(CriticalRecords) = 1

\* C6 amended: a run without schemas.json makes no db_loader call and no
\* write, and it ends with exactly two CRITICAL records: the one of main
\* (line 59), then the one of the entry point (line 209).
C6_TwoFatalRecords ==
    SchemaMissing =>
        /\ calls = <<>>
        /\ attempts = <<>>
        /\ table = <<>>
        /\ pc \in {"unwinding", "exit"}
        /\ (pc = "unwinding" => log = <<Rec("CRITICAL", 59, 0, 0, -1)>>)
        /\ (pc = "exit" => /\ log = <<Rec("CRITICAL", 59, 0, 0, -1),
                                      Rec("CRITICAL", 209, 0, 0, -1)>>
                           /\ Cardinality(CriticalRecords) = 2)

C6_Witness == SchemaMissing /\ pc = "exit"

(* ---------------------------------------------------------------------- *)
(* C7: chunking                                                            *)
(* ---------------------------------------------------------------------- *)
\* The generator of the file before fileIdx has run to its end.
Exhausted == pc = "for_file" /\ gen.state = "done" /\ fileIdx > 1

ReadRows == FileRows(fileIdx - 1, csv_files[fileIdx - 1])

ChunkShape(R, C, n) ==
    /\ Len(yielded) = n
    /\ \A j \in 1..n : yielded[j][1] = j - 1
    /\ \A j \in 1..(n - 1) : Len(yielded[j][2]) = C
    /\ n > 0 => Len(yielded[n][2]) = (IF R % C = 0 THEN Min(C, R) ELSE R % C)
    /\ Concat([j \in 1..n |-> yielded[j][2]]) = ReadRows

\* C7 as stated: a file of R rows read with chunk size C gives ceil(R/C)
\* chunks indexed from 0, of C rows but for the last, which put together
\* are the rows of the file in order; a file without rows gives no chunk.
C7_Chunking ==
    Exhausted =>
        ChunkShape(Len(ReadRows), arg.chunksize, CeilDiv(Len(ReadRows), arg.chunksize))

\* C7 amended: as stated for R >= 1; a file without rows gives exactly one
\* chunk, with index 0 and no rows.
C7_ChunkingAmended ==
    Exhausted =>
        ChunkShape(Len(ReadRows), arg.chunksize,
                   IF Len(ReadRows) = 0 THEN 1
                   ELSE CeilDiv(Len(ReadRows), arg.chunksize))

\* A file was read to its end in two chunks, the second shorter.
C7_Witness ==
    /\ Exhausted
    /\ Len(yielded) = 2
    /\ Len(yielded[2][2]) < Len(yielded[1][2])

(* ---------------------------------------------------------------------- *)
(* C8: column order                                                        *)
(* ---------------------------------------------------------------------- *)
GivenCols == Lookup(arg.schemas, arg.ds_name).cols

\* The dataset is in the catalog and every descriptor has both fields.
ValidCatalog ==
    /\ Lookup(arg.schemas, arg.ds_name).found
    /\ \A k \in 1..Len(GivenCols) :
          HasKey(GivenCols[k], "column_name") /\ HasKey(GivenCols[k], "column_position")

Perms(n) == {p \in [1..n -> 1..n] : \A a, b \in 1..n : a # b => p[a] # p[b]}

\* C8: for a valid catalog get_column_names returns normally, leaves the
\* catalog as it was, and the list it returns is the descriptors' names
\* rearranged, each descriptor once, by ascending column_position, those of
\* equal position in catalog order.
C8_ColumnOrder ==
    (pc = "resolved" /\ ValidCatalog) =>
        /\ exc = NoExc
        /\ schemas = arg.schemas
        /\ \E p \in Perms(Len(GivenCols)) :
              /\ col_name = [k \in 1..Len(GivenCols) |-> GivenCols[p[k]].column_name]
              /\ \A a, b \in 1..Len(GivenCols) :
                    a < b =>
                      \/ GivenCols[p[a]].column_position < GivenCols[p[b]].column_position
                      \/ /\ GivenCols[p[a]].column_position = GivenCols[p[b]].column_position
                         /\ p[a] < p[b]

\* Three differently named descriptors, the first and the last of equal
\* position and the middle one before them, have been resolved.
C8_Witness ==
    /\ pc = "resolved"
    /\ ValidCatalog
    /\ Len(GivenCols) = 3
    /\ GivenCols[1].column_position = GivenCols[3].column_position
    /\ GivenCols[2].column_position < GivenCols[1].column_position
    /\ GivenCols[1].column_name # GivenCols[3].column_name
    /\ col_name = <<GivenCols[2].column_name, GivenCols[1].column_name,
                    GivenCols[3].column_name>>

(* ---------------------------------------------------------------------- *)
(* C9: loading appends                                                     *)
(* ---------------------------------------------------------------------- *)
LoadedTwice ==
    /\ pc = "exit"
    /\ exc = NoExc
    /\ Len(calls) = 2
    /\ calls[1] = calls[2]
    /\ \A a \in 1..Len(attempts) : attempts[a].ok

TableHoldsRowsTwice ==
    LoadedTwice =>
        LET rows == RowsOfDataset(calls[1])
            held == TableRows(calls[1])
        IN  /\ held = rows \o rows
            /\ \A k \in 1..Len(rows) : Occurrences(held, rows[k]) = 2

\* C9: no step removes or changes a row a table holds, and when a dataset
\* has been loaded twice in full with no write failing, its table holds the
\* rows of the first load followed by the same rows again, every source row
\* exactly twice.
C9_AppendOnly ==
    [][/\ \A t \in DOMAIN table :
            /\ t \in DOMAIN table'
            /\ Len(table'[t]) >= Len(table[t])
            /\ SubSeq(table'[t], 1, Len(table[t])) = table[t]
       /\ TableHoldsRowsTwice']_vars

\* A dataset of two files with a row each has been loaded twice.
C9_Witness ==
    /\ LoadedTwice
    /\ Len(FilesOf(1)) = 2
    /\ Len(RowsOfDataset(calls[1])) = 2
    /\ Len(TableRows(calls[1])) = 4

(* ---------------------------------------------------------------------- *)
(* C10: error records of a failed write                                    *)
(* ---------------------------------------------------------------------- *)
\* C10 as stated: a chunk whose write fails with DatabaseError has exactly
\* one ERROR record from to_sql and db_loader together, a chunk whose write
\* succeeds has none.
C10_OneErrorRecord ==
    \A a \in 1..Len(attempts) :
        /\ attempts[a].err = "DatabaseError" => Cardinality(ErrorRecords(a)) = 1
        /\ attempts[a].ok => ErrorRecords(a) = {}

\* C10 amended: a chunk whose write fails with DatabaseError has exactly two
\* ERROR records, the one of to_sql (line 159) followed by the one of
\* db_loader (line 103); a chunk whose write succeeds has none.
C10_TwoErrorRecords ==
    \A a \in 1..Len(attempts) :
        /\ attempts[a].err = "DatabaseError" =>
              \E r \in 1..(Len(log) - 1) :
                  /\ ErrorRecords(a) = {r, r + 1}
                  /\ log[r].line = 159
                  /\ log[r + 1].line = 103
        /\ attempts[a].ok => ErrorRecords(a) = {}

\* A write failed with DatabaseError and a later chunk of the same file was
\* written.
C10_Witness ==
    \E a, b \in 1..Len(attempts) :
        /\ a < b
        /\ attempts[a].err = "DatabaseError"
        /\ attempts[b].ok
        /\ attempts[a].call = attempts[b].call
        /\ attempts[a].file = attempts[b].file

====
